---- MODULE Spec2Model ----
(***************************************************************************)
(* Model of the Sentinel resonance forecasting code of SUPT-Dashboard:     *)
(*   src/data_fetch.py  the four NOAA/SWPC indicator factor functions      *)
(*   src/utils.py       low_pass_filter, check_critical_triplet            *)
(*   src/models.py      compute_tidal_factor, detect_alignments,           *)
(*                      sentinel_forecast                                  *)
(*                                                                         *)
(* Numbers.  Factor values are exact rationals <<n, d>> with d > 0.        *)
(* An X-ray flux is represented by ten times its decimal logarithm         *)
(* (flux = 10^(L/10)), so flux > 1e-5 reads L > -50 and log10(flux) reads  *)
(* L/10; the 1e-10 guard added before the logarithm is below that          *)
(* resolution.  A Kp value is held in hundredths.                          *)
(***************************************************************************)
EXTENDS Integers, Sequences, FiniteSets, TLC

VARIABLES
    feeds,      \* what each NOAA/SWPC URL answers now
    call,       \* the last indicator factor call and its outcome
    sig,        \* the signal handed to check_critical_triplet
    time_int,   \* its time_int argument
    trip,       \* the outcome of check_critical_triplet
    t_days,     \* the time grid handed to the ephemeris functions
    bodies,     \* the body list handed to them
    aspects,    \* the aspect angles handed to detect_alignments
    eph,        \* what the position lookups give, per body and sample
    tidal,      \* the outcome of compute_tidal_factor
    align,      \* the outcome of detect_alignments
    now,        \* the wall clock, in whole days
    args,       \* the arguments of the sentinel_forecast calls
    run1,       \* the outcome of the first sentinel_forecast call
    run2,       \* the outcome of a second call with the same arguments
    quakes,     \* what the INGV feed, the USGS feed and the local file hold now
    cache,      \* what st.cache_data holds for fetch_quakes
    df,         \* the table the last dashboard run got from fetch_quakes
    stopped     \* the last dashboard run took the df.empty branch

feedVars == <<feeds, call>>
tripVars == <<sig, time_int, trip>>
ephVars == <<t_days, bodies, aspects, eph, tidal, align>>
runVars == <<now, args, run1, run2>>
quakeVars == <<quakes, cache, df, stopped>>
vars == <<feeds, call, sig, time_int, trip, t_days, bodies, aspects, eph, tidal, align,
          now, args, run1, run2, quakes, cache, df, stopped>>

-----------------------------------------------------------------------------
(* Rational arithmetic on pairs <<n, d>>, d > 0.                           *)

RLe(a, b) == a[1] * b[2] <= b[1] * a[2]
RLt(a, b) == a[1] * b[2] < b[1] * a[2]
REq(a, b) == a[1] * b[2] = b[1] * a[2]
RMax(a, b) == IF RLt(a, b) THEN b ELSE a
RMin(a, b) == IF RLt(b, a) THEN b ELSE a
RAdd(a, b) == <<a[1] * b[2] + b[1] * a[2], a[2] * b[2]>>
RMul(a, b) == <<a[1] * b[1], a[2] * b[2]>>
ROne == <<1, 1>>
RTwo == <<2, 1>>

RECURSIVE SumSeq(_)
SumSeq(s) == IF s = <<>> THEN 0 ELSE Head(s) + SumSeq(Tail(s))

SeqMax(s) == CHOOSE m \in {s[i] : i \in DOMAIN s} : \A i \in DOMAIN s : s[i] <= m
SeqMin(s) == CHOOSE m \in {s[i] : i \in DOMAIN s} : \A i \in DOMAIN s : m <= s[i]

Range(s) == {s[i] : i \in DOMAIN s}

\* s[-n:]
LastN(s, n) == IF Len(s) <= n THEN s ELSE SubSeq(s, Len(s) - n + 1, Len(s))

\* Outcome of a call: a returned value or an escaped exception.
Return(v) == [kind |-> "return", val |-> v, exc |-> ""]
Raise(e) == [kind |-> "raise", val |-> <<0, 1>>, exc |-> e]

-----------------------------------------------------------------------------
(* src/data_fetch.py                                                       *)

\* A JSON field of a feed record: present with a usable value, absent, or
\* present with a value of the wrong shape.
Val(v) == [k |-> "val", v |-> v]
Missing == [k |-> "missing", v |-> 0]
Malformed == [k |-> "malformed", v |-> 0]

\* What requests.get + raise_for_status + json.loads give for one URL.
Ok(data) == [status |-> "ok", data |-> data]
HttpError == [status |-> "http_error", data |-> <<>>]
BadJson == [status |-> "bad_json", data |-> <<>>]
NotList == [status |-> "not_list", data |-> <<>>]

\* What the four URLs answer: the primary and secondary GOES X-ray feeds, the
\* solar wind plasma feed and the planetary K-index feed.
Feeds(g1, g2, w, k) == [goes1 |-> g1, goes2 |-> g2, wind |-> w, kp |-> k]
FeedsDown == Feeds(HttpError, HttpError, HttpError, HttpError)

LONG_BAND == "0.1-0.8 nm"
SHORT_BAND == "0.05-0.4 nm"

RecentWindow == 180
SpeedWindow == 12
FlareWindow == 10

\* One pass of the for-loop body of get_goes_flux_factor: the records the
\* try block adds to flux_data (none when anything in it raises).
GoesFetch(resp) ==
    IF resp.status = "ok"
    THEN SelectSeq(resp.data, LAMBDA d : d.energy = LONG_BAND)
    ELSE <<>>

\* First record of recent whose field f makes the comprehension raise, or 0.
FirstBad(recent, f) ==
    IF \E i \in DOMAIN recent : recent[i][f].k # "val"
    THEN CHOOSE i \in DOMAIN recent :
            /\ recent[i][f].k # "val"
            /\ \A j \in 1..(i - 1) : recent[j][f].k = "val"
    ELSE 0

\* np.polyfit(mins, log_flux, 1)[0] as the rational num/den of the least
\* squares line, in tenths of a decade per minute; den = 0 is the rank
\* deficient system (all abscissae equal).
PolyfitNum(xs, ys) ==
    Len(xs) * SumSeq([i \in DOMAIN xs |-> xs[i] * ys[i]]) - SumSeq(xs) * SumSeq(ys)
PolyfitDen(xs) ==
    Len(xs) * SumSeq([i \in DOMAIN xs |-> xs[i] * xs[i]]) - SumSeq(xs) * SumSeq(xs)

\* The clamp with its upper limit lost: max(1.0, boost).
Clamp12_NoCeiling(boost) == RMax(ROne, boost)

\* max(1.0, min(2.0, boost))
Clamp12(boost) == RMax(ROne, RMin(RTwo, boost))

\* Lines 33-42 once times and fluxes are built.  slope is num/(10*den) per
\* minute, so slope > 0.01 reads 10*num > den and 0.5*max(0, slope/0.01)
\* reads max(0, 5*num/den).  A NaN slope fails every comparison and
\* max(0, nan) is 0.
GoesBoost(mins, logs) ==
    LET n == Len(mins)
        den == IF n > 1 THEN PolyfitDen(mins) ELSE 1
        num == IF n > 1 THEN PolyfitNum(mins, logs) ELSE 0
        peak == SeqMax(logs) > -50
        nanOut == {Raise("LinAlgError"), Return(Clamp12(ROne))}
        steep == 10 * num > den
        rise == IF num > 0 THEN 5 * num ELSE 0
        boost == IF steep \/ peak THEN <<den + rise, den>> ELSE ROne
    IN  IF n > 1 /\ den = 0 THEN nanOut ELSE {Return(Clamp12(boost))}

\* The set of outcomes of get_goes_flux_factor() when the primary URL answers
\* prim and the secondary URL answers sec.
get_goes_flux_factor(prim, sec) ==
    LET flux_data == GoesFetch(prim) \o GoesFetch(sec)
        recent == LastN(flux_data, RecentWindow)
        badT == FirstBad(recent, "time_tag")
        badF == FirstBad(recent, "flux")
        mins == [i \in DOMAIN recent |-> recent[i].time_tag.v - recent[1].time_tag.v]
        logs == [i \in DOMAIN recent |-> recent[i].flux.v]
    IN  IF flux_data = <<>> THEN {Return(ROne)}
        ELSE IF badT # 0
        THEN {Raise(IF recent[badT].time_tag.k = "missing" THEN "KeyError" ELSE "ValueError")}
        ELSE IF badF # 0
        THEN {Raise(IF recent[badF].flux.k = "missing" THEN "KeyError" ELSE "TypeError")}
        ELSE GoesBoost(mins, logs)

\* get_solar_wind_factor(): rows are [time_tag, density, speed, temperature];
\* data[0] is the header.  avg_speed = total/n, so 1 + (avg_speed - 500)/500
\* is total/(500*n).
get_solar_wind_factor(resp) ==
    LET rows == IF resp.data = <<>> THEN <<>> ELSE Tail(resp.data)
        good == SelectSeq(rows, LAMBDA r : r.speed.k = "digits")
        speeds == LastN([i \in DOMAIN good |-> good[i].speed.v], SpeedWindow)
        total == SumSeq(speeds)
        n == Len(speeds)
    IN  IF resp.status # "ok" THEN Return(ROne)
        ELSE IF \E i \in DOMAIN rows : rows[i].speed.k \in {"null", "short"}
        THEN Return(ROne)
        ELSE IF good = <<>> THEN Return(ROne)
        ELSE IF total > 500 * n
        THEN Return(Clamp12(<<total, 500 * n>>))
        ELSE Return(Clamp12(ROne))

\* get_geomag_storm_factor(): data[-1][1] is the latest Kp, in hundredths.
get_geomag_storm_factor(resp) ==
    LET last == resp.data[Len(resp.data)]
        kp == last.kp.v
        over == (kp - 400) \div 100
        g_level == IF kp >= 500 THEN (IF over < 5 THEN over ELSE 5) ELSE 0
    IN  IF resp.status # "ok" \/ resp.data = <<>> THEN Return(ROne)
        ELSE IF last.kp.k \in {"text", "null", "short"} THEN Return(ROne)
        ELSE IF last.kp.k = "nan" THEN Return(Clamp12(ROne))
        ELSE Return(Clamp12(<<10 + 2 * g_level, 10>>))

\* get_solar_flare_factor(): reads the primary GOES URL again.
get_solar_flare_factor(resp) ==
    LET tail == LastN(resp.data, FlareWindow)
        band == SelectSeq(tail, LAMBDA d : d.energy = LONG_BAND)
        max_flux == SeqMax([i \in DOMAIN band |-> band[i].flux.v])
    IN  IF resp.status # "ok" THEN Return(ROne)
        ELSE IF \E i \in DOMAIN band : band[i].flux.k # "val" THEN Return(ROne)
        ELSE IF band = <<>> THEN Return(ROne)
        ELSE IF max_flux > -40 THEN Return(RTwo)
        ELSE IF max_flux > -50 THEN Return(<<3, 2>>)
        ELSE IF max_flux > -60 THEN Return(<<6, 5>>)
        ELSE Return(ROne)


-----------------------------------------------------------------------------
(* src/utils.py                                                            *)

\* x[i] for a 0-based index, as Python reads it.
At(x, i) == x[i + 1]

\* The end of the plateau that starts at i: the first index after i that is
\* the last sample or holds another value (the inner while of scipy's
\* local-maxima scan).
RECURSIVE Ahead(_, _, _)
Ahead(x, i, j) ==
    IF j < Len(x) - 1 /\ At(x, j) = At(x, i) THEN Ahead(x, i, j + 1) ELSE j

\* scipy.signal.find_peaks(x)[0] with no conditions: the midpoints of the
\* plateaus that rise on the left and fall on the right, scanned left to
\* right from index 1 to the last but one.
RECURSIVE ScanPeaks(_, _, _)
ScanPeaks(x, i, acc) ==
    IF i >= Len(x) - 1 THEN acc
    ELSE IF At(x, i - 1) < At(x, i)
    THEN LET a == Ahead(x, i, i + 1)
         IN  IF At(x, a) < At(x, i)
             THEN ScanPeaks(x, a + 1, Append(acc, (i + a - 1) \div 2))
             ELSE ScanPeaks(x, i + 1, acc)
    ELSE ScanPeaks(x, i + 1, acc)

find_peaks(x) == ScanPeaks(x, 1, <<>>)

\* The window test with the limit itself excluded.
check_critical_triplet_strict(signal, W) ==
    LET peaks == find_peaks(signal)
        times == SubSeq(peaks, 1, 3)
    IN  Len(peaks) >= 3 /\ SeqMax(times) - SeqMin(times) < W

check_critical_triplet(signal, W) ==
    LET peaks == find_peaks(signal)
        times == SubSeq(peaks, 1, 3)
    IN  Len(peaks) >= 3 /\ SeqMax(times) - SeqMin(times) <= W


-----------------------------------------------------------------------------
(* src/models.py: the ephemeris functions.                                 *)
(*                                                                         *)
(* A position lookup (get_body_barycentric, get_body) either raises or     *)
(* gives a position; eph[b][i] holds what the lookup of body b gives at    *)
(* sample i, already reduced to what the caller computes from it, or       *)
(* LookupFails.  For compute_tidal_factor that is the Earth-body distance  *)
(* d, a positive number of the length unit at which the body's tidal       *)
(* acceleration 2*G*M*R_earth/d^3 is one model unit, so a body with a mass *)
(* adds 1/d^3.  For detect_alignments it is the separation from the base   *)
(* body in half degrees.                                                   *)

LookupFails == -1

Series(xs) == [kind |-> "return", series |-> xs, exc |-> ""]
Raised(e) == [kind |-> "raise", series |-> <<>>, exc |-> e]
NotCalled == [kind |-> "none", series |-> <<>>, exc |-> ""]

\* The if/elif chain of lines 22-31: the bodies its else branch skips have
\* no mass.
HasMass(body) == body \in {"moon", "mars", "saturn", "neptune"}

\* The 1e-6 of line 37 in the model's acceleration unit.
TidalScale == 2

RECURSIVE RSum(_)
RSum(s) == IF s = <<>> THEN <<0, 1>> ELSE RAdd(Head(s), RSum(Tail(s)))

\* total_tidal of one sample: the bodies with no mass branch add nothing.
TotalTidal(bs, e, i) ==
    RSum([k \in DOMAIN bs |->
            IF ~HasMass(bs[k]) THEN <<0, 1>>
            ELSE <<1, e[bs[k]][i] * e[bs[k]][i] * e[bs[k]][i]>>])

\* Some lookup of the run raises: the loops reach every body of every sample.
AnyLookupFails(n, bs, e) ==
    \E i \in 1..n, k \in DOMAIN bs : e[bs[k]][i] = LookupFails

\* The normalisation applied whatever the totals are.
compute_tidal_factor_always_scaled(ts, bs, e) ==
    LET n == Len(ts)
        totals == [i \in 1..n |-> TotalTidal(bs, e, i)]
    IN  IF AnyLookupFails(n, bs, e) THEN Raised("KeyError")
        ELSE IF n = 0 THEN Raised("ValueError")
        ELSE Series([i \in 1..n |-> <<totals[i][1], totals[i][2] * TidalScale>>])

\* compute_tidal_factor(t_days, start_date, bodies): no lookup is guarded, so
\* the first one that raises ends the call; np.max of an empty list raises
\* ValueError; the test np.max(tidal_values) > 0 is made once for the series.
compute_tidal_factor(ts, bs, e) ==
    LET n == Len(ts)
        totals == [i \in 1..n |-> TotalTidal(bs, e, i)]
    IN  IF AnyLookupFails(n, bs, e) THEN Raised("KeyError")
        ELSE IF n = 0 THEN Raised("ValueError")
        ELSE IF \E i \in 1..n : RLt(<<0, 1>>, totals[i])
        THEN Series([i \in 1..n |-> <<totals[i][1], totals[i][2] * TidalScale>>])
        ELSE Series([i \in 1..n |-> ROne])

Abs(x) == IF x < 0 THEN -x ELSE x

\* The test with the limit itself included.
NearAspectInclusive(sep, aspect) == Abs(sep - 2 * aspect) <= 2

\* abs(sep - aspect) < 1.0, with sep in half degrees and aspect in degrees.
NearAspect(sep, aspect) == Abs(sep - 2 * aspect) < 2

\* The number of times line 51 runs for one sample.
Boosts(ps, as, e, i) ==
    SumSeq([k \in DOMAIN ps |->
        SumSeq([a \in DOMAIN as |-> IF NearAspect(e[ps[k]][i], as[a]) THEN 1 ELSE 0])])

\* detect_alignments(t_days, start_date, base_body, planets, aspects):
\* boost starts at 1.0 and grows by 0.2 per planet and aspect that match.
detect_alignments(ts, ps, as, e) ==
    LET n == Len(ts)
    IN  IF AnyLookupFails(n, ps, e) THEN Raised("KeyError")
        ELSE Series([i \in 1..n |-> <<5 + Boosts(ps, as, e, i), 5>>])


-----------------------------------------------------------------------------
(* src/utils.py: low_pass_filter, and the fixed-point numbers of the       *)
(* forecast.  A displacement or signal sample is an integer number of      *)
(* 1e-5; times are in thousandths of a day; e^x and the filter run in      *)
(* integer arithmetic at the scales named below.                           *)

Unit == 1000 * 100
Milli == 10 * 100
CoefScale == 100 * 100

RECURSIVE GCD(_, _)
GCD(a, b) == IF b = 0 THEN Abs(a) ELSE GCD(b, a % b)

\* x times the rational r.
FMul(x, r) == LET g == GCD(r[1], r[2]) IN (x * (r[1] \div g)) \div (r[2] \div g)

\* e^(x/1000) in thousandths: the Taylor series to the eighth power.
RECURSIVE ExpTerms(_, _, _)
ExpTerms(x, k, term) ==
    IF k > 8 THEN 0 ELSE term + ExpTerms(x, k + 1, (term * x) \div (Milli * k))
ExpMilli(x) == ExpTerms(x, 1, Milli)

Reverse(s) == [i \in DOMAIN s |-> s[Len(s) + 1 - i]]

\* butter(3, 0.1 / (0.5 * 1.0), btype='low'): b, a and lfilter_zi(b, a),
\* times CoefScale.
ButterB == <<181, 543, 543, 181>>
ButterA == <<10000, -17600, 11829, -2781>>
ButterZi == <<9819, -8324, 2962>>

\* scipy.signal.lfilter(b, a, x, zi = z) in transposed direct form II; the
\* state z is held times CoefScale.
RECURSIVE LFilter(_, _, _, _)
LFilter(x, i, z, acc) ==
    IF i > Len(x) THEN acc
    ELSE LET y == (ButterB[1] * x[i] + z[1]) \div CoefScale
         IN  LFilter(x, i + 1,
                     <<ButterB[2] * x[i] - ButterA[2] * y + z[2],
                       ButterB[3] * x[i] - ButterA[3] * y + z[3],
                       ButterB[4] * x[i] - ButterA[4] * y>>,
                     Append(acc, y))

\* filtfilt's default padlen, 3 * max(len(a), len(b)).
PadLen == 12

\* scipy.signal.filtfilt(b, a, data): odd extension by PadLen samples on both
\* sides, a forward and a backward pass each started in the filter's steady
\* state, the extension cut off again.  The caller checks Len(x) > PadLen.
FiltFilt(x) ==
    LET n == Len(x)
        ext == [i \in 1..(n + 2 * PadLen) |->
                  IF i <= PadLen THEN 2 * x[1] - x[PadLen + 2 - i]
                  ELSE IF i <= PadLen + n THEN x[i - PadLen]
                  ELSE 2 * x[n] - x[n - (i - PadLen - n)]]
        zi(x0) == [k \in 1..3 |-> ButterZi[k] * x0]
        fwd == LFilter(ext, 1, zi(ext[1]), <<>>)
        rev == Reverse(fwd)
        bwd == Reverse(LFilter(rev, 1, zi(rev[1]), <<>>))
    IN  SubSeq(bwd, PadLen + 1, PadLen + n)

\* low_pass_filter(data): filtfilt raises ValueError unless the data are
\* longer than padlen.
low_pass_filter(data) ==
    IF Len(data) <= PadLen THEN Raised("ValueError") ELSE Series(FiltFilt(data))

\* scipy.signal.peak_prominences for one peak: the peak's height above the
\* higher of the lowest samples on either side, each side reaching to the
\* first sample higher than the peak.
RECURSIVE SideMin(_, _, _, _, _)
SideMin(x, p, i, step, m) ==
    IF i < 0 \/ i > Len(x) - 1 THEN m
    ELSE IF At(x, i) > At(x, p) THEN m
    ELSE SideMin(x, p, i + step, step, IF At(x, i) < m THEN At(x, i) ELSE m)

Prominence(x, p) ==
    LET l == SideMin(x, p, p, -1, At(x, p))
        r == SideMin(x, p, p, 1, At(x, p))
    IN  At(x, p) - (IF l > r THEN l ELSE r)

\* find_peaks(x, prominence = 0.5)[0]
find_peaks_prominent(x) ==
    SelectSeq(find_peaks(x), LAMBDA p : 2 * Prominence(x, p) >= Unit)

-----------------------------------------------------------------------------
(* src/models.py: duffing_oscillator and sentinel_forecast.                *)
(*                                                                         *)
(* models.py calls datetime, get_body, find_peaks, low_pass_filter,        *)
(* check_critical_triplet and the four get_*_factor functions without      *)
(* importing them; they are read as the functions of those names in        *)
(* utils.py, data_fetch.py, scipy, astropy and the standard library.       *)
(* calibrate_resonance, resonance_fit and get_laic_tec_factor are defined  *)
(* in none of the source files at hand.                                    *)

\* params of line 61, in thousandths.
gamma == 800
alpha == 19
beta == 10
tau == 50
omega == 25

\* sin(w * 1e-6) in millionths, for the arguments omega * t <= 0.25 reaches.
SinMicro(w) == LET wm == w \div Milli IN w - (wm * wm * wm) \div (6 * Milli)

\* The oscillator with a forcing that leaves folded_proxy out.
duffing_oscillator_unscaled(y, t, folded_proxy) ==
    LET x == y[1]
        v == y[2]
        cube == (((x * x) \div Unit) * x) \div Unit
        square == (v * v) \div Unit
        forcing == ((tau * SinMicro(omega * t)) \div Milli) \div ((Milli * Milli) \div Unit)
    IN  <<v,
          0 - (gamma * v) \div Milli - (alpha * x) \div Milli - (beta * cube) \div Milli
            - square \div 100 + forcing>>

\* duffing_oscillator(y, t, gamma, alpha, beta, tau, omega, folded_proxy):
\* [dxdt, dvdt], with t in thousandths of a day and folded_proxy in
\* thousandths.
duffing_oscillator(y, t, folded_proxy) ==
    LET x == y[1]
        v == y[2]
        cube == (((x * x) \div Unit) * x) \div Unit
        square == (v * v) \div Unit
        forcing == ((((tau * SinMicro(omega * t)) \div Milli) * folded_proxy) \div Milli)
                       \div ((Milli * Milli) \div Unit)
    IN  <<v,
          0 - (gamma * v) \div Milli - (alpha * x) \div Milli - (beta * cube) \div Milli
            - square \div 100 + forcing>>

\* odeint(duffing_oscillator, y0, t, args = params)[:, 0]: the model advances
\* by one explicit Euler step per grid interval where odeint runs LSODA.
RECURSIVE Integrate(_, _, _, _, _)
Integrate(y, t, i, folded_proxy, acc) ==
    IF i > Len(t) THEN acc
    ELSE IF i = Len(t) THEN Append(acc, y[1])
    ELSE LET d == duffing_oscillator(y, t[i], folded_proxy)
             h == t[i + 1] - t[i]
         IN  Integrate(<<y[1] + (d[1] * h) \div Milli, y[2] + (d[2] * h) \div Milli>>,
                       t, i + 1, folded_proxy, Append(acc, y[1]))

odeint(y0, t, folded_proxy) == Integrate(y0, t, 1, folded_proxy, <<>>)

\* np.linspace(0, 10, time_steps), in thousandths of a day.
linspace(n) == [i \in 1..n |-> IF n = 1 THEN 0 ELSE (10 * Milli * (i - 1)) \div (n - 1)]

RECURSIVE CumSum(_, _, _)
CumSum(x, i, acc) ==
    IF i > Len(x) THEN acc
    ELSE CumSum(x, i + 1, Append(acc, x[i] + (IF i = 1 THEN 0 ELSE acc[i - 1])))

\* The positions the built-in ephemeris gives on a date: a fixed table, the
\* same for every call.  Distances and separations in the units of eph.
EphDistance(body, day) == IF body = "moon" THEN 1 + (day % 2) ELSE 2
EphSeparation(planet, day) ==
    CASE planet = "mars" -> 118 + (day % 3)
      [] planet = "jupiter" -> 50
      [] planet = "saturn" -> 30 + 90 * (day % 2)
      [] OTHER -> 300

DefaultBodies == <<"moon", "mars", "saturn", "neptune">>
DefaultPlanets == <<"mars", "jupiter", "saturn", "uranus">>
DefaultAspects == <<0, 60, 90, 120>>

\* Time(start_date) + day * u.day, as a whole day number.
DayOf(date, t) == date + t \div Milli

\* calibrate_resonance(historical_matches, domain): the events of the domain;
\* fewer than two give the neutral model (1.0, 0.0) and a
\* DataInsufficientError notice.  The events the model fits all have one
\* outcome c, for which the least-squares model a*e^(b*x) is (c, 0).
calibrate_resonance(events, domain) ==
    LET kept == SelectSeq(events, LAMBDA ev : domain = "" \/ ev.domain = domain)
    IN  IF Len(kept) < 2
        THEN [a |-> ROne, b |-> 0, notice |-> "DataInsufficientError"]
        ELSE [a |-> kept[1].outcome, b |-> 0, notice |-> ""]

\* The call of line 67 with the domain left out.
CalibrationAllDomains(a) == calibrate_resonance(a.historical_matches, "")

\* a, b = calibrate_resonance(historical_matches, domain) of line 67.
Calibration(a) == calibrate_resonance(a.historical_matches, a.domain)

\* resonance_fit(x, a, b) = a * e^(b*x), x and b in thousandths.
resonance_fit(x, a, b) == RMul(a, <<ExpMilli((b * x) \div Milli), Milli>>)

\* get_laic_tec_factor(ionex_text): a scalar in [1.0, 2.0] read from the
\* IONEX text.
get_laic_tec_factor(ionex_text) == IF ionex_text = "storm" THEN <<3, 2>> ELSE ROne

\* np.mean(proxies), proxies in hundredths.
Mean(proxies) == <<SumSeq(proxies), 100 * Len(proxies)>>
ToMilli(r) == (r[1] * Milli) \div r[2]

\* geomag_kp / 9.0 if geomag_kp > 0 else 1.0
GeomagFactor(geomag_kp) == IF geomag_kp > 0 THEN <<geomag_kp, 9>> ELSE ROne

\* max(1.0, min(2.0, schumann_power / 20.0))
SchumannFactor(schumann_power) == Clamp12(<<schumann_power, 20>>)

\* The scalar of line 72.
Combined(geomag_kp, schumann_power) ==
    RAdd(ROne, RAdd(GeomagFactor(geomag_kp), SchumannFactor(schumann_power)))

Scale(x, r) == [i \in DOMAIN x |-> FMul(x[i], r)]

\* What a call hands back: the tuple (t, forecast, peaks, alert, lyap) of
\* line 83.  lyap, the mean of the differences of log(|diff(forecast)| + 1e-10),
\* is (log(last) - log(first)) / (n - 2) for the first and the last of those
\* magnitudes, and is held as that pair.
Tuple(t, forecast, peaks, alert, lyap) ==
    [t |-> t, forecast |-> forecast, peaks |-> peaks, alert |-> alert, lyap |-> lyap]
NoTuple == Tuple(<<>>, <<>>, <<>>, FALSE, <<0, 0>>)

\* The values a call computes on the way, kept beside its outcome: the
\* signal after line 65 and after the amplification of line 69, the signal
\* handed to low_pass_filter and np.cumsum, the scalars of lines 70-72, and
\* the components that fell back to a neutral value.
Probe(base, amplified, signal, geomag, schumann, combined, fetched, degraded) ==
    [base |-> base, amplified |-> amplified, signal |-> signal, geomag |-> geomag,
     schumann |-> schumann, combined |-> combined, fetched |-> fetched,
     degraded |-> degraded]
NoProbe == Probe(<<>>, <<>>, <<>>, ROne, ROne, ROne, <<>>, {})

Returned(value, probe) == [kind |-> "return", value |-> value, exc |-> "", probe |-> probe]
Failed(e, probe) == [kind |-> "raise", value |-> NoTuple, exc |-> e, probe |-> probe]
NoRun == [kind |-> "none", value |-> NoTuple, exc |-> "", probe |-> NoProbe]

\* The date taken from the clock whatever the argument.
StartDateAlwaysNow(a, clock) == clock

\* start_date or datetime.now().strftime("%Y-%m-%d")
StartDate(a, clock) == IF a.start_date.given THEN a.start_date.day ELSE clock

\* The long-band records a response contributes when it is usable.
Usable(resp) ==
    IF resp.status = "ok" THEN SelectSeq(resp.data, LAMBDA d : d.energy = LONG_BAND) ELSE <<>>
BadField(recs, f) == \E i \in DOMAIN recs : recs[i][f].k # "val"

\* The fetch or the computation of a factor fails on the feeds fd: no URL
\* gives a usable record, or a record that enters the computation lacks a
\* field or has a malformed one.
GoesFails(fd) ==
    LET recs == Usable(fd.goes1) \o Usable(fd.goes2)
    IN  recs = <<>> \/ BadField(recs, "time_tag") \/ BadField(recs, "flux")
WindFails(fd) ==
    \/ fd.wind.status # "ok"
    \/ Len(fd.wind.data) <= 1
    \/ \A i \in 2..Len(fd.wind.data) : fd.wind.data[i].speed.k # "digits"
FlareFails(fd) ==
    LET recs == Usable(fd.goes1)
    IN  recs = <<>> \/ BadField(recs, "flux")
StormFails(fd) ==
    \/ fd.kp.status # "ok"
    \/ fd.kp.data = <<>>
    \/ fd.kp.data[Len(fd.kp.data)].kp.k # "num"

\* The components of a run that fall back to a neutral value.
Degraded(a, fd) ==
    {c \in {"goes", "wind", "storm", "flare"} :
        \/ c = "goes" /\ GoesFails(fd)
        \/ c = "wind" /\ WindFails(fd)
        \/ c = "storm" /\ StormFails(fd)
        \/ c = "flare" /\ FlareFails(fd)}
    \cup (IF a.historical_matches # <<>>
             /\ calibrate_resonance(a.historical_matches, a.domain).notice # ""
          THEN {"calibration"} ELSE {})

\* sentinel_forecast with the GOES factor call ending in goes: a is the
\* argument record, fd what the URLs answer during the call, clock the day
\* datetime.now() gives.
ForecastWith(a, fd, clock, goes) ==
    LET n == a.time_steps
        t == linspace(n)
        start_date == StartDate(a, clock)
        dist == [b \in Range(DefaultBodies) |->
                    [i \in 1..n |-> EphDistance(b, DayOf(start_date, t[i]))]]
        seps == [b \in Range(DefaultPlanets) |->
                    [i \in 1..n |-> EphSeparation(b, DayOf(start_date, t[i]))]]
        tidal_factors == compute_tidal_factor(t, DefaultBodies, dist)
        alignment_factors == detect_alignments(t, DefaultPlanets, DefaultAspects, seps)
        folded_proxy == Mean(a.proxies)
        sol == odeint(<<0, 0>>, t, ToMilli(folded_proxy))
        base == [i \in 1..n |->
                    FMul(FMul(FMul(sol[i], <<ExpMilli(0 - t[i] \div 10), Milli>>),
                              alignment_factors.series[i]),
                         tidal_factors.series[i])]
        model == Calibration(a)
        amplification == resonance_fit(ToMilli(folded_proxy), model.a, model.b)
        amplified == IF a.historical_matches # <<>> THEN Scale(base, amplification) ELSE base
        geomag_factor == GeomagFactor(a.geomag_kp)
        schumann_factor == SchumannFactor(a.schumann_power)
        combined == Combined(a.geomag_kp, a.schumann_power)
        wind == get_solar_wind_factor(fd.wind)
        storm == get_geomag_storm_factor(fd.kp)
        flare == get_solar_flare_factor(fd.goes1)
        tec == IF a.ionex_text # "" THEN get_laic_tec_factor(a.ionex_text) ELSE ROne
        signal == Scale(Scale(Scale(Scale(Scale(Scale(amplified, combined), goes.val),
                                          wind.val), storm.val), flare.val), tec)
        anomaly_signal == low_pass_filter(signal)
        alert == check_critical_triplet(anomaly_signal.series, 20)
        sums == CumSum(signal, 1, <<>>)
        forecast == [i \in 1..n |->
                        FMul(FMul(sums[i], folded_proxy), <<ExpMilli(t[i] \div 100), Milli>>)]
        peaks == find_peaks_prominent(forecast)
        steps == [i \in 1..(n - 1) |-> Abs(forecast[i + 1] - forecast[i])]
        lyap == <<steps[n - 1], steps[1]>>
        probe == Probe(base, amplified, signal, geomag_factor, schumann_factor, combined,
                       <<goes.val, wind.val, storm.val, flare.val, tec>>, Degraded(a, fd))
    IN  IF tidal_factors.kind = "raise" THEN Failed(tidal_factors.exc, NoProbe)
        ELSE IF alignment_factors.kind = "raise" THEN Failed(alignment_factors.exc, NoProbe)
        ELSE IF goes.kind = "raise" THEN Failed(goes.exc, NoProbe)
        ELSE IF anomaly_signal.kind = "raise" THEN Failed(anomaly_signal.exc, NoProbe)
        ELSE Returned(Tuple(t, forecast, peaks, alert, lyap), probe)

\* A run and what the world was when it was made.
Seen(run, fd, clock) == [run |-> run, feeds |-> fd, clock |-> clock]
NotRun == Seen(NoRun, FeedsDown, 0)

\* A proxy that is not a finite number (float('nan'), float('inf')), and the
\* samples computed from one.
NaN == 0 - 999999999
NonFinite(x) == \E i \in DOMAIN x : x[i] = NaN

\* What odeint leaves in sol[:, 0] when the derivative is not finite: the
\* first sample is y0; the others are not finite ("nan"), or the integrator
\* gives up with a warning and they stay as allocated ("stalled").
OdeintOutcomes == {"nan", "stalled"}

\* sentinel_forecast with proxies that hold a non-finite value: folded_proxy
\* is not finite, so the forecast of line 80 is not finite at any sample;
\* the peak searches find nothing in such a series and no statement raises
\* that would not raise for finite proxies.
ForecastNonFinite(a, fd, clock, goes, outcome) ==
    LET finite == ForecastWith([a EXCEPT !.proxies = <<0>>], fd, clock, goes)
        n == a.time_steps
        sol == [i \in 1..n |-> IF i = 1 \/ outcome = "stalled" THEN 0 ELSE NaN]
        nans == [i \in 1..n |-> NaN]
    IN  IF finite.kind = "raise" THEN finite
        ELSE Returned(Tuple(finite.value.t, nans, <<>>, FALSE, <<NaN, NaN>>),
                      [finite.probe EXCEPT !.base = sol, !.amplified = sol, !.signal = sol])

\* The outcomes of sentinel_forecast(proxies, geomag_kp, schumann_power,
\* historical_matches, domain, time_steps, start_date, ionex_text).
sentinel_forecast(a, fd, clock) ==
    IF NonFinite(a.proxies)
    THEN {ForecastNonFinite(a, fd, clock, g, o) :
             g \in get_goes_flux_factor(fd.goes1, fd.goes2), o \in OdeintOutcomes}
    ELSE {ForecastWith(a, fd, clock, g) : g \in get_goes_flux_factor(fd.goes1, fd.goes2)}

-----------------------------------------------------------------------------
(* The feeds as the factor functions see them, and the calls made.         *)

MaxRecs == 2
MaxRows == 2

SeqsUpTo(S, n) == UNION {[1..m -> S] : m \in 0..n}

TimeTags == {Val(0), Val(100), Missing, Malformed}
Fluxes == {Val(-65), Val(-45), Val(-35), Missing, Malformed}
GoesRecords == [energy : {LONG_BAND, SHORT_BAND}, time_tag : TimeTags, flux : Fluxes]
Failures == {HttpError, BadJson, NotList}

GoesPrimaries == Failures \cup {Ok(d) : d \in SeqsUpTo(GoesRecords, MaxRecs)}
GoesSecondaries ==
    {HttpError, Ok(<<>>),
     Ok(<<[energy |-> LONG_BAND, time_tag |-> Val(100), flux |-> Val(-35)]>>),
     Ok(<<[energy |-> LONG_BAND, time_tag |-> Val(0), flux |-> Val(-65)]>>)}

Speed(k, v) == [speed |-> [k |-> k, v |-> v]]
WindHeader == Speed("text", 0)
WindRows ==
    {Speed("digits", 400), Speed("digits", 600), Speed("digits", 2000),
     Speed("na", 0), Speed("text", 0), Speed("null", 0), Speed("short", 0)}
WindPayloads ==
    Failures \cup {Ok(<<>>)} \cup {Ok(<<WindHeader>> \o d) : d \in SeqsUpTo(WindRows, MaxRows)}

Kp(k, v) == [kp |-> [k |-> k, v |-> v]]
KpHeader == Kp("text", 0)
KpRows ==
    {Kp("num", 300), Kp("num", 467), Kp("num", 500), Kp("num", 633), Kp("num", 900),
     Kp("num", 2000), Kp("nan", 0), Kp("null", 0), Kp("short", 0)}
KpPayloads ==
    Failures \cup {Ok(<<>>)} \cup {Ok(<<KpHeader>> \o d) : d \in SeqsUpTo(KpRows, MaxRows)}

\* A table as fetch_quakes hands it back: where it came from, its columns and
\* its rows.
Table(source, columns, rows) == [source |-> source, columns |-> columns, rows |-> rows]
NoTable == Table("none", {}, <<>>)

\* A response or file: whether the request or the open succeeds, and the
\* lines of text it gives.
Body(status, lines) == [status |-> status, lines |-> lines]
Sources(ingv, usgs, local) == [ingv |-> ingv, usgs |-> usgs, local |-> local]
SourcesDown == Sources(Body("error", <<>>), Body("error", <<>>), Body("error", <<>>))

\* A finished fetch_quakes call: how it ended, the table, and the sources as
\* they were when the body ran.
Fetched(kind, table, exc, seen) == [kind |-> kind, table |-> table, exc |-> exc, seen |-> seen]
NotFetched == Fetched("none", NoTable, "", SourcesDown)

QuakeIdle == quakes = SourcesDown /\ cache = NotFetched /\ df = NotFetched /\ stopped = FALSE

EphIdle ==
    /\ t_days = <<>> /\ bodies = <<>> /\ aspects = <<>> /\ eph = <<>>
    /\ tidal = NotCalled /\ align = NotCalled

RunIdle ==
    /\ now = 0 /\ run1 = NotRun /\ run2 = NotRun
    /\ args = [proxies |-> <<0>>, geomag_kp |-> 0, schumann_power |-> 20,
               historical_matches |-> <<>>, domain |-> "", time_steps |-> 0,
               start_date |-> [given |-> FALSE, day |-> 0], ionex_text |-> ""]

TripIdle == sig = <<>> /\ time_int = 0 /\ trip = [done |-> FALSE, alert |-> FALSE]

NoCall == [fn |-> "none", out |-> Return(ROne)]
Call(fn, out) == [fn |-> fn, out |-> out]

\* Each factor function reads its own feed only, so one feed group at a time
\* ranges over its payloads while the others are down.
FeedsInit ==
    /\ \/ \E g1 \in GoesPrimaries, g2 \in GoesSecondaries :
              feeds = Feeds(g1, g2, HttpError, HttpError)
       \/ \E w \in WindPayloads : feeds = Feeds(HttpError, HttpError, w, HttpError)
       \/ \E k \in KpPayloads : feeds = Feeds(HttpError, HttpError, HttpError, k)
    /\ call = NoCall
    /\ TripIdle /\ EphIdle /\ RunIdle /\ QuakeIdle

CallGoes ==
    /\ \E o \in get_goes_flux_factor(feeds.goes1, feeds.goes2) : call' = Call("goes", o)
    /\ UNCHANGED <<feeds, tripVars, ephVars, runVars, quakeVars>>

CallWind ==
    /\ call' = Call("wind", get_solar_wind_factor(feeds.wind))
    /\ UNCHANGED <<feeds, tripVars, ephVars, runVars, quakeVars>>

CallStorm ==
    /\ call' = Call("storm", get_geomag_storm_factor(feeds.kp))
    /\ UNCHANGED <<feeds, tripVars, ephVars, runVars, quakeVars>>

CallFlare ==
    /\ call' = Call("flare", get_solar_flare_factor(feeds.goes1))
    /\ UNCHANGED <<feeds, tripVars, ephVars, runVars, quakeVars>>

FeedsNext == CallGoes \/ CallWind \/ CallStorm \/ CallFlare

SpecFeeds == FeedsInit /\ [][FeedsNext]_vars

-----------------------------------------------------------------------------
(* Claims about the factor functions.                                      *)

IsOne(out) == out.kind = "return" /\ REq(out.val, ROne)

\* C1: whenever the fetch or the computation of a factor fails, the factor
\* function returns exactly 1.0 and raises nothing.
C1_FailureDefaultsToOne ==
    /\ (call.fn = "goes" /\ GoesFails(feeds)) => IsOne(call.out)
    /\ (call.fn = "wind" /\ WindFails(feeds)) => IsOne(call.out)
    /\ (call.fn = "storm" /\ StormFails(feeds)) => IsOne(call.out)
    /\ (call.fn = "flare" /\ FlareFails(feeds)) => IsOne(call.out)

\* C2: every value a factor function returns lies in [1.0, 2.0].
C2_FactorInRange ==
    (call.fn # "none" /\ call.out.kind = "return")
        => (RLe(ROne, call.out.val) /\ RLe(call.out.val, RTwo))

\* A solar wind average above 1000 km/s, whose boost the clamp cuts to 2.0.
C2_Witness ==
    /\ call.fn = "wind"
    /\ call.out = Return(RTwo)
    /\ \E i \in DOMAIN feeds.wind.data : feeds.wind.data[i] = Speed("digits", 2000)

-----------------------------------------------------------------------------
(* check_critical_triplet applied to bounded signals.                      *)

MaxSigLen == 7
Levels == 0..2
Windows == {3, 4, 20}

\* A signal of 42 samples, flat but for single-sample spikes at the 0-based
\* indices in P.
SpikeLen == 42
SpikeTrain(P) == [i \in 1..SpikeLen |-> IF (i - 1) \in P THEN 1 ELSE 0]
SpikeSets == SUBSET {5, 10, 15, 40}

Signals == SeqsUpTo(Levels, MaxSigLen) \cup {SpikeTrain(P) : P \in SpikeSets}

FeedsIdle == feeds = FeedsDown /\ call = NoCall

TripInit ==
    /\ sig \in Signals
    /\ time_int \in Windows
    /\ trip = [done |-> FALSE, alert |-> FALSE]
    /\ FeedsIdle /\ EphIdle /\ RunIdle /\ QuakeIdle

CheckTriplet ==
    /\ ~trip.done
    /\ trip' = [done |-> TRUE, alert |-> check_critical_triplet(sig, time_int)]
    /\ UNCHANGED <<sig, time_int, feedVars, ephVars, runVars, quakeVars>>

TripNext == CheckTriplet

SpecTriplet == TripInit /\ [][TripNext]_vars

\* The local maxima of x, stated without the scan: the midpoints (l + r) \div 2
\* of the maximal runs l..r of equal samples that lie strictly inside x and
\* are strictly higher than the samples on both sides.
LocalMaxima(x) ==
    {(l + r) \div 2 : <<l, r>> \in
        {lr \in (1..(Len(x) - 2)) \X (1..(Len(x) - 2)) :
            /\ lr[1] <= lr[2]
            /\ \A k \in lr[1]..lr[2] : At(x, k) = At(x, lr[1])
            /\ At(x, lr[1] - 1) < At(x, lr[1])
            /\ At(x, lr[2] + 1) < At(x, lr[2])}}

\* The k-th earliest element of a finite set of indices.
Earliest(S, k) == CHOOSE m \in S : Cardinality({j \in S : j < m}) = k - 1

\* C3: check_critical_triplet(signal, time_int = W) is true exactly when the
\* signal has at least 3 local maxima and the 3rd-earliest lies at most W
\* after the 1st; peaks {5,10,15} with W = 20 give true, peaks {5,10,40} with
\* W = 20 give false, fewer than 3 peaks give false.
C3_TripletIff ==
    trip.done =>
        LET M == LocalMaxima(sig)
        IN  /\ trip.alert <=> (Cardinality(M) >= 3 /\ Earliest(M, 3) - Earliest(M, 1) <= time_int)
            /\ (M = {5, 10, 15} /\ time_int = 20) => trip.alert
            /\ (M = {5, 10, 40} /\ time_int = 20) => ~trip.alert
            /\ Cardinality(M) < 3 => ~trip.alert

\* Three peaks whose span equals the window exactly: the limit is included.
C3_Witness ==
    /\ trip.done /\ trip.alert
    /\ Cardinality(LocalMaxima(sig)) = 3
    /\ Earliest(LocalMaxima(sig), 3) - Earliest(LocalMaxima(sig), 1) = time_int

-----------------------------------------------------------------------------
(* The ephemeris functions applied to bounded grids and body lists.        *)

MaxGrid == 2

Grids == {[i \in 1..n |-> i - 1] : n \in 0..MaxGrid}

\* "jupiter" has a position but no branch in the mass chain.
TidalBodyLists ==
    {<<>>, <<"moon">>, <<"jupiter">>, <<"moon", "saturn">>, <<"moon", "jupiter">>,
     <<"jupiter", "moon">>}
PlanetLists == {<<>>, <<"mars">>, <<"mars", "jupiter">>}
AspectLists == {<<0, 60, 90, 120>>, <<0, 1>>}

Distances == {1, 2}
\* 0.5, 1, 25, 59.5 and 61 degrees.
Separations == {1, 2, 50, 119, 122}

Tables(bs, n, outcomes) == [Range(bs) -> [1..n -> outcomes \cup {LookupFails}]]

EphInit ==
    /\ t_days \in Grids
    /\ \/ /\ bodies \in TidalBodyLists
          /\ aspects = <<>>
          /\ eph \in Tables(bodies, Len(t_days), Distances)
       \/ /\ bodies \in PlanetLists
          /\ aspects \in AspectLists
          /\ eph \in Tables(bodies, Len(t_days), Separations)
    /\ tidal = NotCalled /\ align = NotCalled
    /\ FeedsIdle /\ TripIdle /\ RunIdle /\ QuakeIdle

CallTidal ==
    /\ aspects = <<>>
    /\ tidal' = compute_tidal_factor(t_days, bodies, eph)
    /\ UNCHANGED <<t_days, bodies, aspects, eph, align, feedVars, tripVars, runVars, quakeVars>>

CallAlign ==
    /\ aspects # <<>>
    /\ align' = detect_alignments(t_days, bodies, aspects, eph)
    /\ UNCHANGED <<t_days, bodies, aspects, eph, tidal, feedVars, tripVars, runVars, quakeVars>>

EphNext == CallTidal \/ CallAlign

SpecEphem == EphInit /\ [][EphNext]_vars

\* The summed tidal acceleration of sample i.
SampleSum(i) == TotalTidal(bodies, eph, i)

\* C7: compute_tidal_factor gives 1.0 at exactly the samples whose summed
\* tidal acceleration is <= 0 and sum/scale at the others.
C7_TidalPerSample ==
    tidal.kind = "return" =>
        /\ Len(tidal.series) = Len(t_days)
        /\ \A i \in 1..Len(t_days) :
            IF RLe(SampleSum(i), <<0, 1>>)
            THEN tidal.series[i] = ROne
            ELSE REq(tidal.series[i], <<SampleSum(i)[1], SampleSum(i)[2] * TidalScale>>)

\* A returned series with a sample whose sum is 0, replaced by 1.0.
C7_Witness ==
    /\ tidal.kind = "return"
    /\ bodies # <<>>
    /\ \E i \in 1..Len(t_days) : RLe(SampleSum(i), <<0, 1>>) /\ tidal.series[i] = ROne

\* A returned series with a sample whose sum is positive, scaled.
C7_WitnessScaled ==
    /\ tidal.kind = "return"
    /\ \E i \in 1..Len(t_days) : RLt(<<0, 1>>, SampleSum(i)) /\ ~REq(tidal.series[i], ROne)

\* C8: a failed position lookup removes only that body's contribution at
\* that sample: the function still returns a series of full length and no
\* exception escapes.
C8_LookupFailureContained ==
    /\ (tidal.kind # "none" /\ AnyLookupFails(Len(t_days), bodies, eph))
          => (tidal.kind = "return" /\ Len(tidal.series) = Len(t_days))
    /\ (align.kind # "none" /\ AnyLookupFails(Len(t_days), bodies, eph))
          => (align.kind = "return" /\ Len(align.series) = Len(t_days))

\* The number of (planet, aspect) pairs of sample i that lie within w half
\* degrees of each other, the limit included or not.
PairsWithin(i, inclusive) ==
    Cardinality({pa \in (DOMAIN bodies) \X (DOMAIN aspects) :
        LET gap == Abs(eph[bodies[pa[1]]][i] - 2 * aspects[pa[2]])
        IN  IF inclusive THEN gap <= 2 ELSE gap < 2})

\* C9 as claimed: every sample is 1.0 + 0.2 x N, N counting the pairs at most
\* 1 degree apart, a separation exactly 1 degree away included.
C9_AlignmentInclusive ==
    align.kind = "return" =>
        \A i \in 1..Len(t_days) : REq(align.series[i], <<5 + PairsWithin(i, TRUE), 5>>)

\* C9 as the code has it: every sample is 1.0 + 0.2 x N, N counting the pairs
\* strictly less than 1 degree apart; boosts stack without a ceiling and the
\* factor is never below 1.0.
C9_AlignmentStrict ==
    align.kind = "return" =>
        /\ Len(align.series) = Len(t_days)
        /\ \A i \in 1..Len(t_days) :
            /\ REq(align.series[i], <<5 + PairsWithin(i, FALSE), 5>>)
            /\ RLe(ROne, align.series[i])

\* Two planets matching at one sample while another pair is exactly 1 degree
\* away: the boosts stack and the pair on the limit adds nothing.
C9_Witness ==
    /\ align.kind = "return"
    /\ \E i \in 1..Len(t_days) :
        /\ PairsWithin(i, FALSE) >= 2
        /\ PairsWithin(i, TRUE) > PairsWithin(i, FALSE)

-----------------------------------------------------------------------------
(* Two sentinel_forecast calls with the same arguments, while the feeds    *)
(* and the clock move.                                                     *)

MaxDay == 1

GoesRec(t, f) == [energy |-> LONG_BAND, time_tag |-> Val(t), flux |-> f]

\* Every feed answers and every factor is 1.0.
FeedsQuiet ==
    Feeds(Ok(<<GoesRec(0, Val(-65))>>), Ok(<<>>),
          Ok(<<WindHeader, Speed("digits", 400)>>), Ok(<<KpHeader, Kp("num", 300)>>))
\* A C-class flux, a 600 km/s wind and Kp 6.33.
FeedsActive ==
    Feeds(Ok(<<GoesRec(0, Val(-55)), GoesRec(100, Val(-55))>>), Ok(<<>>),
          Ok(<<WindHeader, Speed("digits", 600)>>), Ok(<<KpHeader, Kp("num", 633)>>))
\* A GOES record without its flux.
FeedsBroken ==
    Feeds(Ok(<<GoesRec(0, Missing)>>), Ok(<<>>),
          Ok(<<WindHeader, Speed("digits", 400)>>), Ok(<<KpHeader, Kp("num", 300)>>))
FeedSituations == {FeedsDown, FeedsQuiet, FeedsActive, FeedsBroken}

Event == [proxy |-> 500, outcome |-> <<3, 2>>, domain |-> "seismic"]
OtherEvent == [proxy |-> 500, outcome |-> <<3, 2>>, domain |-> "volcanic"]
NoDate == [given |-> FALSE, day |-> 0]
Date(d) == [given |-> TRUE, day |-> d]

DefaultArgs ==
    [proxies |-> <<75, 70>>, geomag_kp |-> 0, schumann_power |-> 20,
     historical_matches |-> <<>>, domain |-> "", time_steps |-> 13,
     start_date |-> NoDate, ionex_text |-> ""]

ArgSets ==
    {[DefaultArgs EXCEPT !.proxies = p, !.geomag_kp = k, !.schumann_power = w] :
        p \in {<<0, 0>>, <<75, 70>>}, k \in {0, 3, 27}, w \in {10, 20, 60}}
    \cup
    {[DefaultArgs EXCEPT !.historical_matches = h, !.ionex_text = x, !.start_date = d,
                         !.time_steps = n] :
        h \in {<<>>, <<Event>>, <<Event, Event>>}, x \in {"", "storm"},
        d \in {NoDate, Date(0)}, n \in {0, 5, 13}}
    \cup
    {[DefaultArgs EXCEPT !.proxies = p, !.time_steps = n] :
        p \in {<<NaN>>, <<75, NaN>>}, n \in {5, 13}}
    \cup
    {[DefaultArgs EXCEPT !.historical_matches = h, !.domain = dom] :
        h \in {<<>>, <<Event>>, <<Event, Event>>, <<Event, OtherEvent>>},
        dom \in {"seismic", "volcanic", "solar"}}

RunInit ==
    /\ args \in ArgSets
    /\ feeds \in FeedSituations
    /\ now = 0
    /\ run1 = NotRun /\ run2 = NotRun
    /\ call = NoCall
    /\ TripIdle /\ EphIdle /\ QuakeIdle

Forecast1 ==
    /\ run1 = NotRun
    /\ \E r \in sentinel_forecast(args, feeds, now) : run1' = Seen(r, feeds, now)
    /\ UNCHANGED <<feeds, call, now, args, run2, tripVars, ephVars, quakeVars>>

Forecast2 ==
    /\ run1 # NotRun /\ run2 = NotRun
    /\ \E r \in sentinel_forecast(args, feeds, now) : run2' = Seen(r, feeds, now)
    /\ UNCHANGED <<feeds, call, now, args, run1, tripVars, ephVars, quakeVars>>

\* The feeds publish new data or go down.
FeedChange ==
    /\ run2 = NotRun
    /\ \E fd \in FeedSituations \ {feeds} : feeds' = fd
    /\ UNCHANGED <<call, now, args, run1, run2, tripVars, ephVars, quakeVars>>

\* Midnight passes.
Tick ==
    /\ run2 = NotRun
    /\ now < MaxDay
    /\ now' = now + 1
    /\ UNCHANGED <<feeds, call, args, run1, run2, tripVars, ephVars, quakeVars>>

RunNext == Forecast1 \/ Forecast2 \/ FeedChange \/ Tick

SpecForecast == RunInit /\ [][RunNext]_vars

Done(r) == r.run.kind # "none"
SameOutcome(r, q) ==
    r.run.kind = q.run.kind /\ r.run.value = q.run.value /\ r.run.exc = q.run.exc

AllOnes(fetched) == \A i \in DOMAIN fetched : REq(fetched[i], ROne)

\* C5: with geomag_kp = 0, schumann_power = 20.0, no ionex_text and every
\* fetched factor 1.0, the signal handed to the anomaly detector and to the
\* cumulative sum is raw x envelope x tidal x alignment (x amplification).
C5_DefaultsAreNeutral ==
    \A r \in {run1, run2} :
        (/\ r.run.kind = "return"
         /\ args.geomag_kp = 0 /\ args.schumann_power = 20 /\ args.ionex_text = ""
         /\ AllOnes(r.run.probe.fetched))
            => r.run.probe.signal = r.run.probe.amplified

InRange12(x) == RLe(ROne, x) /\ RLe(x, RTwo)

\* C6: the geomagnetic term, the Schumann term and the scalar they are
\* combined into all lie in [1.0, 2.0].
C6_ScalarsInRange ==
    \A r \in {run1, run2} :
        r.run.kind = "return"
            => /\ InRange12(r.run.probe.geomag)
               /\ InRange12(r.run.probe.schumann)
               /\ InRange12(r.run.probe.combined)

\* The degradation notices a returned value carries.
Diagnostics(value) == IF "diagnostics" \in DOMAIN value THEN value.diagnostics ELSE <<>>

\* C10: a completed run has empty diagnostics exactly when no component
\* degraded.
C10_DegradationsReported ==
    \A r \in {run1, run2} :
        r.run.kind = "return"
            => (Diagnostics(r.run.value) = <<>> <=> r.run.probe.degraded = {})

-----------------------------------------------------------------------------
(* src/app.py: fetch_quakes and the dashboard lines that call it.          *)
(*                                                                         *)
(* A text is a sequence of lines.  A line is a comment line (it starts     *)
(* with "#"), a blank line, a line holding "No events", a line of column   *)
(* names, or a line of values.  In a line of column names each of t, m, d  *)
(* says whether the column the reader looks for is there ("name") or not   *)
(* ("other"); in a line of values t is the time cell and m, d the          *)
(* magnitude and depth cells.  Values are taken to hold none of the words  *)
(* the column mapping of lines 92-97 looks for.                            *)

Line(k, t, m, d) == [k |-> k, t |-> t, m |-> m, d |-> d]
CommentLine == Line("comment", "", "", "")
BlankLine == Line("blank", "", "", "")
NoEventsLine == Line("noevents", "", "", "")
Names(t, m, d) == Line("names", t, m, d)
Row(t, m, d) == Line("row", t, m, d)

\* The rows synthetic data has: range(12).
SyntheticRows == 12

REQUIRED == {"time", "magnitude", "depth_km"}

\* pd.read_csv: blank lines are skipped, and so are comment lines when
\* comment = "#" is given; the first line left names the columns, the others
\* are the records.  No line left raises EmptyDataError.
ReadCsv(lines, skip_comments) ==
    LET kept == SelectSeq(lines, LAMBDA l :
                    l.k # "blank" /\ (skip_comments => l.k # "comment"))
    IN  IF kept = <<>> THEN [ok |-> FALSE, header |-> BlankLine, records |-> <<>>]
        ELSE [ok |-> TRUE, header |-> kept[1], records |-> Tail(kept)]

\* pd.to_datetime(..., errors="coerce") and pd.to_numeric(..., errors="coerce")
\* of one record's cells: whether the result is a value rather than NaT / NaN.
\* Only a line of values has cells that parse.
ParsesTime(l) == l.k = "row" /\ l.t \in {"recent", "recent_tz", "old"}
ParsesMag(l) == l.k = "row" /\ l.m = "num"
ParsesDepth(l) == l.k = "row" /\ l.d = "num"

\* The column of name c is among the columns the header line gives.
HasColumn(header, c) == header.k = "names" /\ header[c] = "name"

\* How a branch of fetch_quakes ends.
Got(table) == [kind |-> "return", table |-> table, exc |-> ""]
Threw(e) == [kind |-> "raise", table |-> NoTable, exc |-> e]

\* The INGV branch, lines 63-115: the table, or the exception the except of
\* line 117 catches.
FetchIngv(resp) ==
    LET nonblank == SelectSeq(resp.lines, LAMBDA l : l.k # "blank")
        lines == IF nonblank # <<>> /\ nonblank[1].k # "comment"
                 THEN <<CommentLine>> \o nonblank ELSE nonblank
        csv == ReadCsv(lines, TRUE)
        parsed == SelectSeq(csv.records, LAMBDA l : ParsesTime(l) /\ ParsesMag(l) /\ ParsesDepth(l))
        recent == SelectSeq(parsed, LAMBDA l : l.t = "recent")
    IN  IF resp.status # "ok" THEN Threw("RequestException")
        ELSE IF nonblank = <<>> \/ \E i \in DOMAIN nonblank : nonblank[i].k = "noevents"
             THEN Threw("ValueError")
        ELSE IF ~csv.ok THEN Threw("EmptyDataError")
        ELSE IF ~(HasColumn(csv.header, "t") /\ HasColumn(csv.header, "m") /\ HasColumn(csv.header, "d"))
             THEN Threw("KeyError")
        ELSE IF \E i \in DOMAIN parsed : parsed[i].t = "recent_tz" THEN Threw("TypeError")
        ELSE IF recent = <<>> THEN Threw("ValueError")
        ELSE Got(Table("ingv", REQUIRED \cup {"Time", "Magnitude", "Depth(km)"}, recent))

\* if not df.empty, taken as true whatever the table holds.
UsgsAcceptsAny(rows) == TRUE

\* if not df.empty (line 132)
UsgsAccepts(rows) == rows # <<>>

\* The USGS branch, lines 121-135: the response is read whatever its HTTP
\* status, a comment line is a line like any other, and no window of days is
\* applied.
FetchUsgs(resp) ==
    LET csv == ReadCsv(resp.lines, FALSE)
        parsed == SelectSeq(csv.records, LAMBDA l : ParsesTime(l) /\ ParsesMag(l) /\ ParsesDepth(l))
    IN  IF resp.status # "ok" THEN Threw("RequestException")
        ELSE IF ~csv.ok THEN Threw("EmptyDataError")
        ELSE IF ~(HasColumn(csv.header, "t") /\ HasColumn(csv.header, "m") /\ HasColumn(csv.header, "d"))
             THEN Threw("KeyError")
        ELSE IF UsgsAccepts(parsed)
             THEN Got(Table("usgs", REQUIRED \cup {"mag", "depth"}, parsed))
        ELSE Threw("ValueError")

\* The local file branch, lines 140-150: df.get gives a column that is not
\* there a default that parses (the index, 0.6, 1.9).  A file that gives no
\* rows ends the branch without a table, like an exception does.
FetchLocal(file) ==
    LET csv == ReadCsv(file.lines, FALSE)
        usable(l) ==
            /\ HasColumn(csv.header, "t") => ParsesTime(l)
            /\ HasColumn(csv.header, "m") => ParsesMag(l)
            /\ HasColumn(csv.header, "d") => ParsesDepth(l)
        parsed == SelectSeq(csv.records, usable)
    IN  IF file.status # "ok" THEN Threw("FileNotFoundError")
        ELSE IF ~csv.ok THEN Threw("EmptyDataError")
        ELSE IF Len(parsed) > 0 THEN Got(Table("local", REQUIRED, parsed))
        ELSE Threw("")

\* The synthetic table, lines 153-162: twelve hourly rows with drawn
\* magnitudes and depths.
Synthetic == Table("synthetic", REQUIRED, [i \in 1..SyntheticRows |-> Row("recent", "num", "num")])

\* The body of fetch_quakes, lines 60-162.
fetch_quakes_body(src) ==
    LET ingv == FetchIngv(src.ingv)
        usgs == FetchUsgs(src.usgs)
        local == FetchLocal(src.local)
    IN  IF ingv.kind = "return" THEN Fetched("return", ingv.table, "", src)
        ELSE IF usgs.kind = "return" THEN Fetched("return", usgs.table, "", src)
        ELSE IF local.kind = "return" THEN Fetched("return", local.table, "", src)
        ELSE Fetched("return", Synthetic, "", src)

\* @st.cache_data(ttl=900) around fetch_quakes, line 57: a stored table is
\* handed back without running the body.
fetch_quakes(src, stored) == IF stored.kind = "return" THEN stored ELSE fetch_quakes_body(src)

-----------------------------------------------------------------------------
(* Dashboard runs while the seismic sources change and the cache expires.  *)

MaxLines == 3

QuakeLines ==
    {CommentLine, BlankLine, NoEventsLine,
     Names("name", "name", "name"), Names("name", "other", "name"),
     Row("recent", "num", "num"), Row("recent_tz", "num", "num"), Row("old", "num", "num"),
     Row("bad", "num", "num"), Row("recent", "bad", "num")}

Bodies == {Body("error", <<>>)} \cup {Body("ok", ls) : ls \in SeqsUpTo(QuakeLines, MaxLines)}

\* A source that is down, one that answers with a header and no record, and
\* one that answers with a usable record.
BodyDown == Body("error", <<>>)
BodyHeaderOnly == Body("ok", <<Names("name", "name", "name")>>)
BodyGood == Body("ok", <<Names("name", "name", "name"), Row("recent", "num", "num")>>)
FewBodies == {BodyDown, BodyHeaderOnly, BodyGood}

OtherIdle == FeedsIdle /\ TripIdle /\ EphIdle /\ RunIdle

\* One source ranges over every text; the sources before it are down or
\* empty, the sources after it down or good.
QuakeInit ==
    /\ \/ \E x \in Bodies, y \in {BodyDown, BodyGood}, z \in {BodyDown, BodyGood} :
              quakes = Sources(x, y, z)
       \/ \E x \in FewBodies \ {BodyGood}, y \in Bodies, z \in {BodyDown, BodyGood} :
              quakes = Sources(x, y, z)
       \/ \E x \in FewBodies \ {BodyGood}, y \in FewBodies \ {BodyGood}, z \in Bodies :
              quakes = Sources(x, y, z)
    /\ cache = NotFetched /\ df = NotFetched /\ stopped = FALSE
    /\ OtherIdle

\* Lines 186-193 of the script: df = fetch_quakes(), then st.stop() when
\* df.empty.
RunDashboard ==
    /\ df = NotFetched
    /\ LET got == fetch_quakes(quakes, cache)
       IN  /\ df' = got
           /\ cache' = IF got.kind = "return" THEN got ELSE cache
           /\ stopped' = (got.kind = "return" /\ got.table.rows = <<>>)
    /\ UNCHANGED <<quakes, feedVars, tripVars, ephVars, runVars>>

\* The script is run again (a rerun of the page).
Rerun ==
    /\ df # NotFetched
    /\ df' = NotFetched /\ stopped' = FALSE
    /\ UNCHANGED <<quakes, cache, feedVars, tripVars, ephVars, runVars>>

\* The 900 seconds of the cache pass.
CacheExpire ==
    /\ cache # NotFetched
    /\ cache' = NotFetched
    /\ UNCHANGED <<quakes, df, stopped, feedVars, tripVars, ephVars, runVars>>

\* Every source goes down, or every source comes up.
SourceChange ==
    /\ df # NotFetched
    /\ \E b \in {BodyDown, BodyGood} \ {quakes.ingv} : quakes' = Sources(b, b, b)
    /\ UNCHANGED <<cache, df, stopped, feedVars, tripVars, ephVars, runVars>>

QuakeNext == RunDashboard \/ Rerun \/ CacheExpire \/ SourceChange

SpecQuakes == QuakeInit /\ [][QuakeNext]_vars

\* A source failed or gave no usable row, the sources taken as they were when
\* the body of fetch_quakes ran.
IngvFailed(r) == FetchIngv(r.seen.ingv).kind # "return"
UsgsFailed(r) == FetchUsgs(r.seen.usgs).kind # "return"
LocalFailed(r) == FetchLocal(r.seen.local).kind # "return"

\* C11: fetch_quakes never raises and always returns a table with at least
\* one row and the columns time, magnitude and depth_km, so the df.empty
\* branch of the script is never taken; the table is INGV's unless INGV
\* failed or gave no usable row, then USGS's unless USGS did, then the local
\* file's unless it did, and the synthetic one only when all three did.
C11_AlwaysATable ==
    df.kind # "none" =>
        /\ df.kind = "return"
        /\ df.table.rows # <<>>
        /\ REQUIRED \subseteq df.table.columns
        /\ ~stopped
        /\ df.table.source \in {"ingv", "usgs", "local", "synthetic"}
        /\ df.table.source = "ingv" <=> ~IngvFailed(df)
        /\ df.table.source = "usgs" <=> (IngvFailed(df) /\ ~UsgsFailed(df))
        /\ df.table.source = "local" <=> (IngvFailed(df) /\ UsgsFailed(df) /\ ~LocalFailed(df))
        /\ df.table.source = "synthetic" <=> (IngvFailed(df) /\ UsgsFailed(df) /\ LocalFailed(df))
        /\ df.seen.ingv = BodyGood => df.table.source = "ingv"

\* INGV and USGS both answer but neither gives a usable row, and the table
\* comes from the local file.
C11_Witness ==
    /\ df.kind = "return"
    /\ df.table.source = "local"
    /\ df.seen.ingv.status = "ok" /\ df.seen.ingv.lines # <<>>
    /\ df.seen.usgs.status = "ok" /\ df.seen.usgs.lines # <<>>
    /\ ~stopped

-----------------------------------------------------------------------------
(* Claims about the oscillator at rest.                                    *)

AllZero(x) == \A i \in DOMAIN x : x[i] = 0

\* C12: with folded_proxy = 0 the derivative at rest is zero at every grid
\* time, the displacement integrated from (0, 0) never grows in magnitude,
\* and a returned forecast for all-zero proxies has no peaks and no alert.
C12_ZeroProxyStaysAtRest ==
    \A r \in {run1, run2} :
        (r.run.kind = "return" /\ AllZero(args.proxies)) =>
            LET t == r.run.value.t
                sol == odeint(<<0, 0>>, t, ToMilli(Mean(args.proxies)))
            IN  /\ \A i \in DOMAIN t :
                       duffing_oscillator(<<0, 0>>, t[i], ToMilli(Mean(args.proxies))) = <<0, 0>>
                /\ \A i \in 1..(Len(sol) - 1) : Abs(sol[i + 1]) <= Abs(sol[i])
                /\ AllZero(r.run.probe.base)
                /\ r.run.value.peaks = <<>>
                /\ ~r.run.value.alert

\* A returned run over 13 samples with all-zero proxies while the feeds are
\* active and the Schumann term is at its ceiling.
C12_Witness ==
    /\ run1.run.kind = "return"
    /\ AllZero(args.proxies)
    /\ Len(run1.run.value.t) = 13
    /\ run1.feeds = FeedsActive
    /\ args.schumann_power = 60
    /\ run1.run.value.peaks = <<>> /\ ~run1.run.value.alert

-----------------------------------------------------------------------------
(* Claims about how a forecast run fails.                                  *)

\* C13: a run fails with NumericalInstabilityError and nothing else, and a
\* run that returns has no non-finite sample in the oscillator output nor in
\* its forecast.
C13_OnlyInstabilityAborts ==
    \A r \in {run1, run2} :
        /\ r.run.kind = "raise" => r.run.exc = "NumericalInstabilityError"
        /\ r.run.kind = "return" =>
              (~NonFinite(r.run.probe.base) /\ ~NonFinite(r.run.value.forecast))

-----------------------------------------------------------------------------
(* Claims about the calibration of the amplification.                      *)

\* The events left after the domain filter.
KeptEvents(a) ==
    SelectSeq(a.historical_matches, LAMBDA ev : a.domain = "" \/ ev.domain = a.domain)

C14_WitnessSingle ==
    /\ run1.run.kind = "return"
    /\ Len(args.historical_matches) = 2
    /\ Len(KeptEvents(args)) = 1
    /\ ~AllZero(run1.run.probe.base)

====
